---- MODULE Spec2Model ----
(***************************************************************************)
(* State-machine model of simulation_engine.py: Variant, the two           *)
(* Methodology subclasses (PeekingProxyMethod, BayesianFramework) and the   *)
(* day loop of Simulation.run_single_simulation.                            *)
(*                                                                          *)
(* Numbers.  Floats are modelled exactly as rationals <<num, den>> with     *)
(* den > 0 where the code divides; random draws are nondeterministic        *)
(* choices over (a finite part of) the support of the distribution drawn    *)
(* from.  RPV values and epsilon share one (scaled) unit.                   *)
(***************************************************************************)
EXTENDS Integers, Sequences, FiniteSets, TLC

VARIABLES
    config,     \* Simulation.config / the constructor arguments of the variants
    names,      \* key order of Methodology.variants (insertion order of the dict)
    variants,   \* name -> Variant object (shared by both methodologies)
    methods,    \* methodology name -> Methodology object
    check,      \* the run_check call that returned last: method, day, object before it
    frame,      \* locals of that call at its end, where the specification observes them
    raised,     \* exception that escaped the last call ("None" when it returned)
    day,        \* loop variable of run_single_simulation
    m_idx,      \* position in the list `methodologies` inside the day loop
    results,    \* value returned by run_single_simulation (<<>> before the return)
    pc          \* control point

vars == <<config, names, variants, methods, check, frame, raised, day, m_idx, results, pc>>

----------------------------------------------------------------------------
(* Bounds of the model *)

\* Monte Carlo draws per variant and check (BayesianFramework.S, 20000 by default)
S == 2
\* day values handed to run_check in the object-level specification
MaxDay == 2
\* cap on Variant.visitors in the object-level specifications
MaxVisitors == 10
\* cap on Variant.visitors in VariantSpec
MaxVariantVisitors == 6
\* max_days handed to run_single_simulation
MaxDays == 2

(* Program constants *)

\* `variant.conversions < 5 or control.conversions < 5`
MinConversions == 5

PEEKING == "Peeking (Proxy)"
BAYESIAN == "Bayesian Framework"
TIMED_OUT == "N/A (Timed Out)"
FUTILITY == "Stopped for Futility"
NoCheck == [method |-> "None"]
NoFrame == [min_loss_variant |-> "None"]

----------------------------------------------------------------------------
(* Exact rational arithmetic for the float expressions of the code *)

RatMul(a, b) == <<a[1] * b[1], a[2] * b[2]>>
RatEq(a, b) == a[1] * b[2] = b[1] * a[2]
RatLess(a, b) == a[1] * b[2] < b[1] * a[2]
\* a / b for b # 0, with a positive denominator
RatDiv(a, b) ==
    IF b[1] > 0 THEN <<a[1] * b[2], a[2] * b[1]>>
    ELSE <<(0 - a[1]) * b[2], a[2] * (0 - b[1])>>

RECURSIVE SeqSum(_)
SeqSum(s) == IF s = <<>> THEN 0 ELSE Head(s) + SeqSum(Tail(s))

RECURSIVE SeqMax(_)
SeqMax(s) ==
    IF Len(s) = 1 THEN s[1]
    ELSE LET m == SeqMax(Tail(s)) IN IF s[1] >= m THEN s[1] ELSE m

----------------------------------------------------------------------------
(* class Variant *)

\* Variant.__init__ raises ZeroDivisionError when a divisor is 0.0:
\* gamma_scale = variance / true_aov, gamma_shape = true_aov / gamma_scale
VariantInitRaises(true_aov, aov_std_dev) ==
    \/ true_aov = 0
    \/ RatDiv(<<aov_std_dev * aov_std_dev, 1>>, <<true_aov, 1>>)[1] = 0

\* Variant.__init__ when it returns
Variant(name, true_aov, aov_std_dev) ==
    LET variance == <<aov_std_dev * aov_std_dev, 1>>
        gamma_scale == RatDiv(variance, <<true_aov, 1>>)
        gamma_shape == RatDiv(<<true_aov, 1>>, gamma_scale)
    IN  [name |-> name,
         true_aov |-> true_aov,
         gamma_scale |-> gamma_scale,
         gamma_shape |-> gamma_shape,
         visitors |-> 0,
         conversions |-> 0,
         conversion_revenues |-> <<>>]

\* np.random.binomial(n, p) for 0 < p < 1: every count of 0..n has positive probability
BinomialSupport(n_visitors) == 0 .. n_visitors

\* np.random.gamma(shape, scale, size): `size` strictly positive values
\* (one representative value of the support (0, inf))
GammaDraws(size) == [i \in 1 .. size |-> 1]

add_visitors_no_count(self, n_visitors, new_conversions) ==
    [self EXCEPT !.conversions = @ + new_conversions,
                 !.conversion_revenues = @ \o GammaDraws(new_conversions)]

\* Variant.add_visitors, new_conversions being the Binomial draw
add_visitors(self, n_visitors, new_conversions) ==
    [self EXCEPT !.visitors = @ + n_visitors,
                 !.conversions = @ + new_conversions,
                 !.conversion_revenues = @ \o GammaDraws(new_conversions)]

----------------------------------------------------------------------------
(* class Methodology *)

\* Methodology.__init__
Methodology(name) ==
    [name |-> name, is_stopped |-> FALSE, decision |-> TIMED_OUT, stop_day |-> -1]

\* BayesianFramework.__init__
BayesianFramework(name, epsilon) ==
    [name |-> name, is_stopped |-> FALSE, decision |-> TIMED_OUT, stop_day |-> -1,
     epsilon |-> epsilon, S |-> S]

\* f"Declared '{name}' winner"
Declared(name) == "Declared '" \o name \o "' winner"

----------------------------------------------------------------------------
(* class PeekingProxyMethod *)

\* statsmodels proportions_ztest(counts, nobs, alternative='larger'): the square of
\* zstat = (p1 - p2) / sqrt(p_pool * (1 - p_pool) * (1/n1 + 1/n2)) as the exact
\* rational <<(c1*n2 - c2*n1)^2 * (n1 + n2), n1 * n2 * (c1 + c2) * (n1 + n2 - c1 - c2)>>
ZStatSquared(counts, nobs) ==
    LET d == counts[1] * nobs[2] - counts[2] * nobs[1]
        n == nobs[1] + nobs[2]
        c == counts[1] + counts[2]
    IN  <<d * d * n, nobs[1] * nobs[2] * c * (n - c)>>

\* `p_value < 0.05` for p_value = norm.sf(zstat): zstat > 1.64485, i.e. for a
\* positive difference zstat^2 > 2.7055 = 2 + 1411/2000.  A zero variance with a
\* zero difference gives nan, and nan < 0.05 is False.
PValueBelowAlpha(counts, nobs) ==
    LET z2 == ZStatSquared(counts, nobs)
        q == z2[1] \div z2[2]
        r == z2[1] % z2[2]
    IN  /\ counts[1] * nobs[2] > counts[2] * nobs[1]
        /\ z2[2] > 0
        /\ (q >= 3 \/ (q = 2 /\ 2000 * r > 1411 * z2[2]))

\* whether proportions_ztest raises (caught by `except Exception: pass`): numpy
\* divisions by zero give nan or inf with a warning, never an exception
ZTestRaises(counts, nobs) == FALSE

\* `counts[0] / nobs[0] > counts[1] / nobs[1]` (positive nobs: conversions >= 5)
RateExceeds(variant, control) ==
    variant.conversions * control.visitors > control.conversions * variant.visitors

TooFewConversionsVariantOnly(variant, control) ==
    variant.conversions < MinConversions

\* `if variant.conversions < 5 or control.conversions < 5: continue`
TooFewConversions(variant, control) ==
    variant.conversions < MinConversions \/ control.conversions < MinConversions

RaisesKeyError(vs) == "A" \notin DOMAIN vs

\* whether PeekingProxyMethod.run_check raises: the control is looked up with
\* self.variants.get('A') and the test runs inside try/except, so it never does
PeekingRaises(vs) == FALSE

\* the assignments of a winner declaration (both subclasses)
DeclareWinner(self, name, d) ==
    [self EXCEPT !.is_stopped = TRUE, !.decision = Declared(name), !.stop_day = d]

\* `for name, variant in self.variants.items()` from position i on
RECURSIVE PeekingLoop(_, _, _, _, _)
PeekingLoop(self, vs, order, i, d) ==
    IF i > Len(order) THEN self
    ELSE LET name == order[i]
             variant == vs[name]
             control == vs["A"]
         IN  IF name = "A" THEN PeekingLoop(self, vs, order, i + 1, d)
             ELSE IF TooFewConversions(variant, control)
                  THEN PeekingLoop(self, vs, order, i + 1, d)
             ELSE IF /\ RateExceeds(variant, control)
                     /\ ~ZTestRaises(<<variant.conversions, control.conversions>>,
                                     <<variant.visitors, control.visitors>>)
                     /\ PValueBelowAlpha(<<variant.conversions, control.conversions>>,
                                         <<variant.visitors, control.visitors>>)
                  THEN DeclareWinner(self, name, d)
             ELSE PeekingLoop(self, vs, order, i + 1, d)

\* `if not control or control.visitors == 0: return`
NoControlData(vs) == "A" \notin DOMAIN vs \/ vs["A"].visitors = 0

PeekingRunCheckNoEarlyReturn(self, vs, order, d) ==
    IF NoControlData(vs) THEN self
    ELSE PeekingLoop(self, vs, order, 1, d)

\* PeekingProxyMethod.run_check(day): the object after the call
PeekingRunCheck(self, vs, order, d) ==
    IF self.is_stopped THEN self
    ELSE IF NoControlData(vs) THEN self
    ELSE PeekingLoop(self, vs, order, 1, d)

----------------------------------------------------------------------------
(* class BayesianFramework *)

\* np.random.beta(conv_alpha, conv_beta): a value of (0, 1), in the scaled unit
BetaSupport(conv_alpha, conv_beta) == {1}
\* sps.t.rvs(df, loc, scale): any real, negative ones included
StudentTSupport(variant) == {-1, 2}
\* sps.norm.rvs(loc=100, scale=50): any real, negative ones included
NormSupport == {-1, 2}

\* the S draws of p for one variant
PSamples(variant) ==
    [1 .. S -> BetaSupport(1 + variant.conversions,
                           1 + (variant.visitors - variant.conversions))]

\* the S draws of mu for one variant: `if variant.conversions > 1: ... else: ...`
MuSamples(variant) ==
    IF variant.conversions > 1 THEN [1 .. S -> StudentTSupport(variant)]
    ELSE [1 .. S -> NormSupport]

\* rpd_samples[name] = p_samples * mu_samples
RpdSamples(vs, p_samples, mu_samples) ==
    [name \in DOMAIN vs |-> [s \in 1 .. S |-> p_samples[name][s] * mu_samples[name][s]]]

MaxRpdFirstColumn(rpd_samples, order) ==
    [s \in 1 .. S |-> rpd_samples[order[1]][s]]

\* all_samples_df.max(axis=1)
MaxRpdPerDraw(rpd_samples, order) ==
    [s \in 1 .. S |-> SeqMax([i \in 1 .. Len(order) |-> rpd_samples[order[i]][s]])]

\* loss_samples = max_rpd_per_draw - all_samples_df[name]
LossSamples(max_rpd_per_draw, rpd_samples, name) ==
    [s \in 1 .. S |-> max_rpd_per_draw[s] - rpd_samples[name][s]]

\* loss_samples.mean()
Mean(samples) == <<SeqSum(samples), Len(samples)>>

RECURSIVE MinKeyLast(_, _, _, _)
MinKeyLast(expected_losses, order, i, best) ==
    IF i > Len(order) THEN best
    ELSE IF ~RatLess(expected_losses[best], expected_losses[order[i]])
         THEN MinKeyLast(expected_losses, order, i + 1, order[i])
         ELSE MinKeyLast(expected_losses, order, i + 1, best)

\* min(expected_losses, key=expected_losses.get) from position i on: the first key,
\* in insertion order, with the least value
RECURSIVE MinKey(_, _, _, _)
MinKey(expected_losses, order, i, best) ==
    IF i > Len(order) THEN best
    ELSE IF RatLess(expected_losses[order[i]], expected_losses[best])
         THEN MinKey(expected_losses, order, i + 1, order[i])
         ELSE MinKey(expected_losses, order, i + 1, best)

BayesianRaisesWithoutFallback(vs) ==
    DOMAIN vs = {} \/ \E n \in DOMAIN vs : vs[n].conversions <= 1

\* min() of an empty dict raises ValueError
BayesianRaises(vs) == DOMAIN vs = {}

\* `if min_loss_value < self.epsilon`
StopRule(min_loss_value, epsilon) == RatLess(min_loss_value, epsilon)

\* the locals of BayesianFramework.run_check at its end
BayesianLocals(vs, order, rpd_samples) ==
    LET max_rpd_per_draw == MaxRpdPerDraw(rpd_samples, order)
        loss_samples == [name \in DOMAIN vs |->
                            LossSamples(max_rpd_per_draw, rpd_samples, name)]
        expected_losses == [name \in DOMAIN vs |-> Mean(loss_samples[name])]
        min_loss_variant == MinKey(expected_losses, order, 1, order[1])
    IN  [rpd_samples |-> rpd_samples,
         max_rpd_per_draw |-> max_rpd_per_draw,
         loss_samples |-> loss_samples,
         expected_losses |-> expected_losses,
         min_loss_variant |-> min_loss_variant,
         min_loss_value |-> expected_losses[min_loss_variant]]

\* BayesianFramework.run_check(day) after the early return: the object after the call
BayesianDecide(self, locals, d) ==
    IF StopRule(locals.min_loss_value, self.epsilon)
    THEN IF locals.min_loss_variant = "A"
         THEN [self EXCEPT !.is_stopped = TRUE, !.stop_day = d, !.decision = FUTILITY]
         ELSE DeclareWinner(self, locals.min_loss_variant, d)
    ELSE self

----------------------------------------------------------------------------
(* Calls, as steps of the state machine *)

\* one sample vector per variant, each from the set sample_sets gives for the variant
DrawsFor(sample_sets) ==
    {f \in [DOMAIN sample_sets -> UNION {sample_sets[n] : n \in DOMAIN sample_sets}] :
        \A n \in DOMAIN sample_sets : f[n] \in sample_sets[n]}

\* variant.add_visitors(n_visitors) on the variant called name
CallAddVisitors(name, n_visitors) ==
    \E new_conversions \in BinomialSupport(n_visitors) :
        /\ variants' = [variants EXCEPT
                           ![name] = add_visitors(@, n_visitors, new_conversions)]
        /\ check' = NoCheck
        /\ frame' = NoFrame
        /\ raised' = "None"

\* PeekingProxyMethod.run_check(d)
CallPeekingRunCheck(d) ==
    /\ check' = [method |-> PEEKING, day |-> d, before |-> methods[PEEKING]]
    /\ frame' = NoFrame
    /\ IF ~methods[PEEKING].is_stopped /\ PeekingRaises(variants)
       THEN /\ methods' = methods
            /\ raised' = "KeyError"
       ELSE /\ methods' = [methods EXCEPT
                              ![PEEKING] = PeekingRunCheck(@, variants, names, d)]
            /\ raised' = "None"

\* BayesianFramework.run_check(d); observe says whether the locals are kept in view
CallBayesianRunCheck(d, observe) ==
    LET self == methods[BAYESIAN]
    IN  /\ check' = [method |-> BAYESIAN, day |-> d, before |-> self]
        /\ IF self.is_stopped
           THEN /\ methods' = methods
                /\ frame' = NoFrame
                /\ raised' = "None"
           ELSE IF BayesianRaises(variants)
           THEN /\ methods' = methods
                /\ frame' = NoFrame
                /\ raised' = "ValueError"
           ELSE \E p_samples \in DrawsFor([n \in DOMAIN variants |-> PSamples(variants[n])]),
                   mu_samples \in DrawsFor([n \in DOMAIN variants |-> MuSamples(variants[n])]) :
                   \E at_end \in {BayesianLocals(variants, names,
                                     RpdSamples(variants, p_samples, mu_samples))} :
                       /\ methods' = [methods EXCEPT
                                         ![BAYESIAN] = BayesianDecide(self, at_end, d)]
                       /\ frame' = IF observe THEN at_end ELSE NoFrame
                       /\ raised' = "None"

----------------------------------------------------------------------------
(* Construction *)

\* ground truth of the case studies (run_case_study_1.py: true_aov 100, std dev 40)
VConfig(name) == [name |-> name, true_aov |-> 100, aov_std_dev |-> 40]

\* 'epsilon': 0.001, handed to BayesianFramework
EpsilonValue == <<1, 1000>>

\* variants = [Variant(**v_config) ...]; self.variants = {v.name: v for v in variants}
BuildVariants(v_configs) ==
    [name \in {v_configs[i].name : i \in DOMAIN v_configs} |->
        LET i == CHOOSE j \in DOMAIN v_configs : v_configs[j].name = name
        IN  Variant(name, v_configs[i].true_aov, v_configs[i].aov_std_dev)]

\* methodologies = [PeekingProxyMethod(...), BayesianFramework(..., epsilon=...)]
BuildMethods(epsilon) ==
    [m \in {PEEKING, BAYESIAN} |->
        IF m = PEEKING THEN Methodology(PEEKING) ELSE BayesianFramework(BAYESIAN, epsilon)]

\* the state once the variants of `order` and both methodologies are constructed
Constructed(order) ==
    /\ names = order
    /\ variants = BuildVariants(config.variants)
    /\ methods = BuildMethods(config.epsilon)
    /\ check = NoCheck
    /\ frame = NoFrame
    /\ raised = "None"
    /\ day = 0
    /\ m_idx = 0
    /\ results = <<>>

----------------------------------------------------------------------------
(* Both methodologies under arbitrary call sequences: specification Spec *)

\* the variant lists the methodologies are built on; one without the control 'A'
NameLists == {<<"A">>, <<"A", "B">>, <<"B", "C">>}

\* n_visitors handed to add_visitors
VisitorCounts == {0, 5}

Init ==
    /\ \E order \in NameLists :
          /\ config = [variants |-> [i \in DOMAIN order |-> VConfig(order[i])],
                       epsilon |-> EpsilonValue]
          /\ Constructed(order)
    /\ pc = "ready"

\* some variant.add_visitors(n) with n of counts, the visitors staying within cap
AddVisitorsWithin(counts, cap) ==
    /\ pc = "ready"
    /\ \E name \in DOMAIN variants, n_visitors \in counts :
          /\ variants[name].visitors + n_visitors <= cap
          /\ CallAddVisitors(name, n_visitors)
    /\ UNCHANGED <<config, names, methods, day, m_idx, results, pc>>

AddVisitors == AddVisitorsWithin(VisitorCounts, MaxVisitors)

PeekingCheck ==
    /\ pc = "ready"
    /\ \E d \in 1 .. MaxDay : CallPeekingRunCheck(d)
    /\ UNCHANGED <<config, names, variants, day, m_idx, results, pc>>

BayesianCheck ==
    /\ pc = "ready"
    /\ \E d \in 1 .. MaxDay : CallBayesianRunCheck(d, FALSE)
    /\ UNCHANGED <<config, names, variants, day, m_idx, results, pc>>

Next == AddVisitors \/ PeekingCheck \/ BayesianCheck

Spec == Init /\ [][Next]_vars

----------------------------------------------------------------------------
(* PeekingProxyMethod over three variants: specification PeekSpec *)

PeekNameLists == {<<"A", "B", "C">>, <<"C", "A", "B">>}

PeekInit ==
    /\ \E order \in PeekNameLists :
          /\ config = [variants |-> [i \in DOMAIN order |-> VConfig(order[i])],
                       epsilon |-> EpsilonValue]
          /\ Constructed(order)
    /\ pc = "ready"

PeekNext == AddVisitors \/ PeekingCheck

PeekSpec == PeekInit /\ [][PeekNext]_vars

----------------------------------------------------------------------------
(* One Variant from its constructor on: specification VariantSpec *)

\* admissible ground truth: true_aov > 0, aov_std_dev >= 0
AovValues == {1, 2, 3}
StdDevValues == {0, 1, 2}
VariantVisitorCounts == 0 .. 3

VariantInit ==
    /\ \E a \in AovValues, sd \in StdDevValues :
          config = [variants |-> <<[name |-> "A", true_aov |-> a, aov_std_dev |-> sd]>>,
                    epsilon |-> EpsilonValue]
    /\ names = <<>>
    /\ variants = <<>>
    /\ methods = <<>>
    /\ check = NoCheck
    /\ frame = NoFrame
    /\ raised = "None"
    /\ day = 0
    /\ m_idx = 0
    /\ results = <<>>
    /\ pc = "new"

\* Variant(**v_config)
NewVariant ==
    /\ pc = "new"
    /\ LET v == config.variants[1]
       IN  IF VariantInitRaises(v.true_aov, v.aov_std_dev)
           THEN /\ raised' = "ZeroDivisionError"
                /\ pc' = "raised"
                /\ UNCHANGED <<names, variants>>
           ELSE /\ variants' = BuildVariants(config.variants)
                /\ names' = <<v.name>>
                /\ raised' = "None"
                /\ pc' = "ready"
    /\ UNCHANGED <<config, methods, check, frame, day, m_idx, results>>

GrowVariant == AddVisitorsWithin(VariantVisitorCounts, MaxVariantVisitors)

VariantNext == NewVariant \/ GrowVariant

VariantSpec == VariantInit /\ [][VariantNext]_vars

----------------------------------------------------------------------------
(* Simulation.run_single_simulation: specifications SimSpec, FairSimSpec *)

\* the list `methodologies`, in the order of its construction
Methodologies == <<PEEKING, BAYESIAN>>

\* self.config['daily_total_visitors'] (no multiple of the variant count)
DailyTotals == {17}

DailyVisitorsUndivided(daily_total_visitors, n_variants) == daily_total_visitors

\* daily_visitors = self.config['daily_total_visitors'] // len(variants)
DailyVisitors(daily_total_visitors, n_variants) == daily_total_visitors \div n_variants

RangeHasNextInclusive(d, max_days) == d <= max_days

\* `for day in range(1, max_days + 1)`: d is the last value taken (0 before the first)
RangeHasNext(d, max_days) == d + 1 < max_days + 1

\* the state after the construction of variants and methodologies
SimInit ==
    /\ \E total \in DailyTotals :
          config = [variants |-> <<VConfig("A"), VConfig("B")>>,
                    daily_total_visitors |-> total,
                    epsilon |-> EpsilonValue,
                    max_days |-> MaxDays]
    /\ Constructed(<<"A", "B">>)
    /\ pc = "for"

\* the head of the day loop
SimFor ==
    /\ pc = "for"
    /\ IF RangeHasNext(day, config.max_days)
       THEN day' = day + 1 /\ pc' = "grow"
       ELSE day' = day /\ pc' = "return"
    /\ UNCHANGED <<config, names, variants, methods, check, frame, raised, m_idx, results>>

\* `for variant in variants: variant.add_visitors(daily_visitors)`
SimGrow ==
    /\ pc = "grow"
    /\ LET daily_visitors == DailyVisitors(config.daily_total_visitors, Len(names))
       IN  \E drawn \in [DOMAIN variants -> BinomialSupport(daily_visitors)] :
              variants' = [name \in DOMAIN variants |->
                              add_visitors(variants[name], daily_visitors, drawn[name])]
    /\ check' = NoCheck
    /\ frame' = NoFrame
    /\ m_idx' = 1
    /\ pc' = "check"
    /\ UNCHANGED <<config, names, methods, raised, day, results>>

\* `for method in methodologies: method.run_check(day)`, one call
SimCheck ==
    /\ pc = "check"
    /\ IF Methodologies[m_idx] = PEEKING
       THEN CallPeekingRunCheck(day)
       ELSE CallBayesianRunCheck(day, TRUE)
    /\ IF m_idx < Len(Methodologies)
       THEN m_idx' = m_idx + 1 /\ pc' = "check"
       ELSE m_idx' = m_idx /\ pc' = "break"
    /\ UNCHANGED <<config, names, variants, day, results>>

\* the early exit at the end of a day: stop once every methodology has concluded
SimBreak ==
    /\ pc = "break"
    /\ IF \A m \in DOMAIN methods : methods[m].is_stopped
       THEN pc' = "return"
       ELSE pc' = "for"
    /\ check' = NoCheck
    /\ frame' = NoFrame
    /\ UNCHANGED <<config, names, variants, methods, raised, day, m_idx, results>>

\* the returned value: per methodology its decision label and stop day
SimReturn ==
    /\ pc = "return"
    /\ results' = [m \in DOMAIN methods |->
                      [decision |-> methods[m].decision, stop_day |-> methods[m].stop_day]]
    /\ pc' = "done"
    /\ UNCHANGED <<config, names, variants, methods, check, frame, raised, day, m_idx>>

SimNext == SimFor \/ SimGrow \/ SimCheck \/ SimBreak \/ SimReturn

SimSpec == SimInit /\ [][SimNext]_vars

\* the trial is one sequential call: a step that is possible is taken
FairSimSpec == SimSpec /\ WF_vars(SimNext)

----------------------------------------------------------------------------
(* Properties *)

Untouched(m) ==
    /\ ~methods[m].is_stopped
    /\ methods[m].decision = TIMED_OUT
    /\ methods[m].stop_day = -1

AllStopped == \A m \in DOMAIN methods : methods[m].is_stopped

LittleData == \A n \in DOMAIN variants : variants[n].conversions < 2

\* C1: once is_stopped is true for a methodology (Peeking or Bayesian), no later
\* step - a run_check with any day, or growth of the variants - changes its
\* is_stopped, decision or stop_day.
C1_StoppedIsFrozen ==
    [][\A m \in DOMAIN methods :
          methods[m].is_stopped =>
              /\ methods'[m].is_stopped
              /\ methods'[m].decision = methods[m].decision
              /\ methods'[m].stop_day = methods[m].stop_day]_vars

\* a run_check on an already stopped PeekingProxyMethod, with another day than the
\* stop day, while the BayesianFramework is stopped too
C1_Witness ==
    /\ check.method = PEEKING
    /\ check.before.is_stopped
    /\ check.day # methods[PEEKING].stop_day
    /\ methods[BAYESIAN].is_stopped

\* C2: for every Variant, after any sequence of add_visitors calls with
\* non-negative n, conversions <= visitors (and one order value per conversion).
C2_ConversionsAtMostVisitors ==
    \A n \in DOMAIN variants :
        /\ 0 <= variants[n].conversions
        /\ variants[n].conversions <= variants[n].visitors
        /\ Len(variants[n].conversion_revenues) = variants[n].conversions

\* several growth calls, some converting and some not
C2_Witness ==
    \E n \in DOMAIN variants :
        /\ variants[n].visitors = MaxVariantVisitors
        /\ variants[n].conversions > 0
        /\ variants[n].conversions < variants[n].visitors

\* C3 (as claimed): a methodology without a control entry 'A' no-ops for ever,
\* Peeking or Bayesian: no error, is_stopped false, decision and stop_day initial.
C3_NoControlNoOp ==
    "A" \notin DOMAIN variants =>
        /\ raised = "None"
        /\ \A m \in DOMAIN methods : Untouched(m)

\* C3 (amended): a PeekingProxyMethod without a control entry 'A' no-ops for ever:
\* its run_check raises nothing and leaves is_stopped false, decision and stop_day
\* at their initial values.
C3_PeekingNoControlNoOp ==
    "A" \notin DOMAIN variants =>
        /\ Untouched(PEEKING)
        /\ check.method = PEEKING => raised = "None"

\* a Peeking check without control, on data that would let a test succeed
C3_Witness ==
    /\ names = <<"B", "C">>
    /\ check.method = PEEKING
    /\ variants["B"].visitors = 10 /\ variants["B"].conversions = 5
    /\ variants["C"].visitors = 10 /\ variants["C"].conversions = 10

\* C4 (as claimed): a run_check of either methodology on variants that all have
\* fewer than 2 conversions (zero data included) does not fail and makes no
\* decision: is_stopped stays false, decision and stop_day are unchanged.
C4_NoDecisionOnLittleData ==
    (check.method \in {PEEKING, BAYESIAN} /\ LittleData /\ ~check.before.is_stopped) =>
        /\ raised = "None"
        /\ methods[check.method] = check.before

\* C4 (amended): on variants that all have fewer than 2 conversions, a run_check of
\* PeekingProxyMethod does not fail and makes no decision, and a run_check of
\* BayesianFramework over at least one variant does not fail.
C4_NoFailureOnLittleData ==
    (check.method \in {PEEKING, BAYESIAN} /\ LittleData /\ ~check.before.is_stopped) =>
        /\ check.method = PEEKING =>
              raised = "None" /\ methods[PEEKING] = check.before
        /\ (check.method = BAYESIAN /\ names # <<>>) => raised = "None"

\* a Bayesian check on data with one conversion in all (fallback prior for both)
C4_Witness ==
    /\ names = <<"A", "B">>
    /\ check.method = BAYESIAN
    /\ ~check.before.is_stopped
    /\ variants["A"].visitors = 5 /\ variants["A"].conversions = 0
    /\ variants["B"].visitors = 5 /\ variants["B"].conversions = 1

\* C5: in every Bayesian check, for every draw s and variant v the loss
\* max_w RPV[w][s] - RPV[v][s] is >= 0, a variant attaining the maximum of draw s
\* has loss 0 there, and every expected loss is >= 0.
C5_LossNonNegative ==
    frame # NoFrame =>
        \A v \in DOMAIN variants :
            /\ \A s \in 1 .. S :
                  /\ frame.loss_samples[v][s] >= 0
                  /\ \E w \in DOMAIN variants :
                        /\ \A u \in DOMAIN variants :
                              frame.rpd_samples[u][s] <= frame.rpd_samples[w][s]
                        /\ frame.loss_samples[v][s] =
                              frame.rpd_samples[w][s] - frame.rpd_samples[v][s]
                        /\ frame.loss_samples[w][s] = 0
            /\ frame.expected_losses[v][1] >= 0
            /\ frame.expected_losses[v][2] > 0

\* a check whose draws differ, negative RPV draws included
C5_Witness ==
    /\ frame # NoFrame
    /\ frame.rpd_samples["A"] = <<2, -1>>
    /\ frame.rpd_samples["B"] = <<-1, -1>>
    /\ frame.loss_samples["B"] = <<3, 0>>

\* the key min() returns: least expected loss, first in the order of the variants
IsMinLossVariant(i) ==
    /\ \A j \in DOMAIN names :
          ~RatLess(frame.expected_losses[names[j]], frame.expected_losses[names[i]])
    /\ \A j \in 1 .. (i - 1) :
          RatLess(frame.expected_losses[names[i]], frame.expected_losses[names[j]])

\* C6: a check of a not yet stopped BayesianFramework stops iff the least expected
\* loss is strictly below epsilon; then stop_day is the day of the check and the
\* decision is 'Stopped for Futility' iff the least-loss variant is 'A', else the
\* declaration of that variant; otherwise the object is unchanged.
C6_BayesianStopRule ==
    (check.method = BAYESIAN /\ ~check.before.is_stopped) =>
        \E i \in DOMAIN names :
            /\ IsMinLossVariant(i)
            /\ IF RatLess(frame.expected_losses[names[i]], check.before.epsilon)
               THEN /\ methods[BAYESIAN].is_stopped
                    /\ methods[BAYESIAN].stop_day = day
                    /\ check.day = day
                    /\ methods[BAYESIAN].decision =
                          IF names[i] = "A" THEN FUTILITY ELSE Declared(names[i])
               ELSE methods[BAYESIAN] = check.before

\* a winner declaration for 'B' on day 2, after a day-1 check that did not stop
C6_Witness ==
    /\ check.method = BAYESIAN
    /\ ~check.before.is_stopped
    /\ day = 2
    /\ methods[BAYESIAN].decision = Declared("B")
    /\ methods[BAYESIAN].stop_day = 2

\* the conditions under which the Peeking check declares the variant called n
Qualifies(n) ==
    /\ n # "A"
    /\ variants[n].conversions >= 5
    /\ variants["A"].conversions >= 5
    /\ variants[n].conversions * variants["A"].visitors
          > variants["A"].conversions * variants[n].visitors
    /\ PValueBelowAlpha(<<variants[n].conversions, variants["A"].conversions>>,
                        <<variants[n].visitors, variants["A"].visitors>>)

\* C7: a check of a not yet stopped PeekingProxyMethod declares the first variant,
\* in configuration order, that is not the control, has with the control at least
\* 5 conversions, a higher empirical rate and a one-sided p-value below 0.05, and
\* sets stop_day to the day; with no such variant the object is unchanged.  It
\* never declares the control and never decides futility.
C7_PeekingFirstQualifier ==
    /\ (check.method = PEEKING /\ ~check.before.is_stopped) =>
          LET Q == {i \in DOMAIN names : Qualifies(names[i])}
          IN  IF Q = {} THEN methods[PEEKING] = check.before
              ELSE \E i \in Q :
                      /\ \A j \in Q : i <= j
                      /\ methods[PEEKING] =
                            [check.before EXCEPT !.is_stopped = TRUE,
                                                 !.decision = Declared(names[i]),
                                                 !.stop_day = check.day]
    /\ methods[PEEKING].decision \notin {FUTILITY, Declared("A")}

\* 'C' and 'B' both qualify; 'C', first in the order, is declared
C7_Witness ==
    /\ names = <<"C", "A", "B">>
    /\ check.method = PEEKING
    /\ ~check.before.is_stopped
    /\ Qualifies("B")
    /\ Qualifies("C")
    /\ methods[PEEKING].decision = Declared("C")
    /\ methods[PEEKING].stop_day = check.day

\* C8: on every simulated day d, when the checks run all variants have been grown
\* for that day - each has d * (daily_total_visitors // number of variants)
\* visitors, d in 1..max_days - and no run_check modifies a Variant.
C8_GrowthBeforeChecks ==
    /\ [](pc \in {"check", "break"} =>
            /\ day \in 1 .. config.max_days
            /\ \A n \in DOMAIN variants :
                  variants[n].visitors
                      = day * (config.daily_total_visitors \div Len(names)))
    /\ [][pc = "check" => variants' = variants]_vars

\* the second methodology's check of day 2
C8_Witness ==
    /\ pc = "check"
    /\ m_idx = 2
    /\ day = 2
    /\ check.method = PEEKING
    /\ \A n \in DOMAIN variants : variants[n].visitors = 16

\* C9: a trial always terminates; it ends at the end of the first day on which
\* every methodology is stopped, otherwise after day max_days; no growth and no
\* check happens after that; a methodology that never stopped is reported with
\* 'N/A (Timed Out)' and stop day -1.
C9_TrialTerminates ==
    /\ <>(pc = "done")
    /\ [](pc = "grow" => (day \in 1 .. config.max_days /\ ~AllStopped))
    /\ [](pc = "check" =>
            /\ day \in 1 .. config.max_days
            /\ \E m \in DOMAIN methods :
                  ~methods[m].is_stopped \/ methods[m].stop_day = day)
    /\ [](pc = "done" =>
            /\ IF AllStopped
               THEN /\ \A m \in DOMAIN methods : methods[m].stop_day <= day
                    /\ \E m \in DOMAIN methods : methods[m].stop_day = day
               ELSE day = config.max_days
            /\ \A m \in DOMAIN methods :
                  results[m] =
                      IF methods[m].is_stopped
                      THEN [decision |-> methods[m].decision,
                            stop_day |-> methods[m].stop_day]
                      ELSE [decision |-> TIMED_OUT, stop_day |-> -1])

\* a trial that ended on day 1, before max_days, both methodologies stopped
C9_Witness ==
    /\ pc = "done"
    /\ day = 1
    /\ day < config.max_days
    /\ AllStopped

\* C10 (as claimed): for every admissible ground truth (true_aov > 0, standard
\* deviation >= 0, 0 included) constructing a Variant succeeds, with
\* shape * scale = true_aov and shape * scale^2 = standard deviation squared.
C10_ConstructionSucceeds ==
    pc # "new" =>
        /\ raised = "None"
        /\ \A i \in DOMAIN config.variants :
              LET c == config.variants[i]
                  v == variants[c.name]
              IN  /\ RatEq(RatMul(v.gamma_shape, v.gamma_scale), <<c.true_aov, 1>>)
                  /\ RatEq(RatMul(v.gamma_shape, RatMul(v.gamma_scale, v.gamma_scale)),
                           <<c.aov_std_dev * c.aov_std_dev, 1>>)

\* the part of C10 that holds: a strictly positive standard deviation
C10_PositiveStdDev ==
    (pc # "new" /\ \A i \in DOMAIN config.variants : config.variants[i].aov_std_dev > 0) =>
        C10_ConstructionSucceeds

====
